---- MODULE Spec2Model ----
(***************************************************************************)
(* Model of the navigation history engine of taro-router                   *)
(* (packages/taro-router/src/history/createHistory.ts): the module-level   *)
(* key counter, the engine created by createHistory, the host's native     *)
(* history stack (window.history), the durable slot (localStorage) and the *)
(* transition manager the engine delegates listeners and guards to.        *)
(***************************************************************************)
EXTENDS Integers, Sequences, FiniteSets, TLC

(* ------------------------------ bounds -------------------------------- *)

\* Largest number of navigations in one behaviour: state-sets started, plus
\* navigations the host made by itself that no notification reported.  Every
\* key minted belongs to one of them, so this bounds the key counter too.
MaxTrans == 3

\* Largest number of listen calls (listener identities 1..MaxListeners).
MaxListeners == 2

\* Largest number of block calls (guard identities 1..MaxGuards).
MaxGuards == 2

\* How far below zero repeated calls of unsubscribe handles may drive the
\* reference count.
MaxDeficit == 1

\* Largest number of issued native navigations not yet performed by the host.
MaxPending == 1

(* --------------------------- value domains ---------------------------- *)

\* Paths are sequences of segments: <<"app", "a">> is '/app/a', <<>> is '/'.
\* Paths given to push.
Paths == {<<"app", "a">>, <<"app", "b">>}

\* The path a redirecting callback reacts to, and the path it replaces it by.
RedirectFrom == <<"app", "a">>

RedirectTo == <<"app", "b">>

\* Paths given to replace.
ReplacePaths == {<<"app", "b">>}

\* Paths the host navigates to on its own (anchor click, manual hash edit).
HostPaths == {<<"c">>}

\* go(num) arguments: goBack is go(-1), goForward is go(1).
Deltas == {-1, 1}

\* props.basename after normalisation: '/app'.
Basenames == {<<"app">>}

\* A native entry that carries no state (history.state is null).
NoState == [kind |-> "null"]

KeyState(k) == [kind |-> "key", key |-> k]

\* Marks "nothing recorded yet" in the bookkeeping variables.
None == [kind |-> "none"]

(* ------------------- String(n) and Number(s) on keys ------------------ *)

\* Decimal numerals, indexed by value + 1.
Numerals == <<"0", "1", "2", "3", "4", "5", "6", "7", "8", "9", "10", "11", "12">>

\* String(n) for a non-negative integer n.
String(n) == Numerals[n + 1]

\* Number(s) for a decimal numeral s.
Number(s) == CHOOSE n \in 0..(Len(Numerals) - 1) : Numerals[n + 1] = s

(* ------------------------------ state --------------------------------- *)

VARIABLES
    props,          \* [basename]: the argument of createHistory
    stateKey,       \* module-level key counter
    history,        \* the engine's public object: [action, location, length]
    lastLocation,   \* the last location the engine set ("last known key")
    store,          \* the in-memory store object [key]
    durable,        \* content of the localStorage slot 'taroRouterStore'
    storageOk,      \* FALSE when access to localStorage throws
    entries,        \* native history stack: entries [state, route]
    cur,            \* index of the native entry being viewed
    pending,        \* deltas of globalHistory.go calls the host has not performed
    listenerCount,  \* reference count of checkDOMListeners
    subscribed,     \* handlePopState is installed on window 'popstate'
    isBlocked,      \* the engine's guard flag
    listeners,      \* transition manager: live listeners in registration order
    prompt,         \* transition manager: the current guard, or None
    nextListener,   \* number of listen calls so far
    callbacks,      \* what the callback of each listener does, by identity
    nextGuard,      \* number of block calls so far
    log,            \* deliveries of the latest state-set, in order
    minted,         \* keys created by createKey, in order, with the key known then
    popInfo,        \* last handled host notification: [K, Kp, action], or None
    nTrans,         \* number of state-sets started
    nHostNav,       \* number of host navigations no notification reported
    threw           \* the last operation let an exception reach its caller

vars == <<props, stateKey, history, lastLocation, store, durable, storageOk,
          entries, cur, pending, listenerCount, subscribed, isBlocked,
          listeners, prompt, nextListener, callbacks, nextGuard, log, minted,
          popInfo, nTrans, nHostNav, threw>>

\* The whole state as one record, so that handlers compose as functions.
S == [props |-> props, stateKey |-> stateKey, history |-> history,
      lastLocation |-> lastLocation, store |-> store, durable |-> durable,
      storageOk |-> storageOk, entries |-> entries, cur |-> cur,
      pending |-> pending, listenerCount |-> listenerCount,
      subscribed |-> subscribed, isBlocked |-> isBlocked,
      listeners |-> listeners, prompt |-> prompt,
      nextListener |-> nextListener, callbacks |-> callbacks,
      nextGuard |-> nextGuard,
      log |-> log, minted |-> minted, popInfo |-> popInfo, nTrans |-> nTrans,
      nHostNav |-> nHostNav, threw |-> threw]

\* The next state is the record r.
Apply(r) ==
    /\ props' = r.props
    /\ stateKey' = r.stateKey
    /\ history' = r.history
    /\ lastLocation' = r.lastLocation
    /\ store' = r.store
    /\ durable' = r.durable
    /\ storageOk' = r.storageOk
    /\ entries' = r.entries
    /\ cur' = r.cur
    /\ pending' = r.pending
    /\ listenerCount' = r.listenerCount
    /\ subscribed' = r.subscribed
    /\ isBlocked' = r.isBlocked
    /\ listeners' = r.listeners
    /\ prompt' = r.prompt
    /\ nextListener' = r.nextListener
    /\ callbacks' = r.callbacks
    /\ nextGuard' = r.nextGuard
    /\ log' = r.log
    /\ minted' = r.minted
    /\ popInfo' = r.popInfo
    /\ nTrans' = r.nTrans
    /\ nHostNav' = r.nHostNav
    /\ threw' = r.threw

(* --------------------------- path utilities --------------------------- *)

IsPrefix(p, q) == Len(p) <= Len(q) /\ SubSeq(q, 1, Len(p)) = p

\* hasBasename(path, prefix)
hasBasename(path, prefix) == IsPrefix(prefix, path)

\* stripBasename(path, prefix): the path without the prefix, when it has it.
stripBasename(path, prefix) ==
    IF hasBasename(path, prefix)
    THEN SubSeq(path, Len(prefix) + 1, Len(path))
    ELSE path

\* createLocation(path, key): a new location value.
createLocation(path, key) == [path |-> path, key |-> key]

\* createHref(location): the route written to the native entry.  In hash
\* mode the route is the URL's fragment and in browser mode its path; the
\* engine reads back the same part it writes (getDOMLocation).
createHref(s, location) == s.props.basename \o location.path

(* ------------------------ host: native history ------------------------ *)

\* globalHistory.pushState(state, '', href): drop the forward entries, append.
pushState(s, state, href) ==
    [s EXCEPT !.entries = Append(SubSeq(s.entries, 1, s.cur),
                                 [state |-> state, route |-> href]),
              !.cur = s.cur + 1]

\* globalHistory.replaceState(state, '', href): rewrite the current entry.
replaceState(s, state, href) ==
    [s EXCEPT !.entries[s.cur] = [state |-> state, route |-> href]]

\* globalHistory.replaceState(state, ''): the URL stays.
replaceStateKeepUrl(s, state) ==
    [s EXCEPT !.entries[s.cur].state = state]

(* --------------------------- key and store ---------------------------- *)

\* String(stateKey++): the counter moves but the key returned is the old one.
createKeyPostIncrement(s) ==
    [s EXCEPT !.stateKey = s.stateKey + 1,
              !.minted = Append(s.minted,
                                [key |-> String(s.stateKey),
                                 known |-> s.lastLocation.key])]

\* createKey(): String(++stateKey).  The key returned is recorded as the
\* last element of minted, with the last known key at that moment.
createKey(s) ==
    [s EXCEPT !.stateKey = s.stateKey + 1,
              !.minted = Append(s.minted,
                                [key |-> String(s.stateKey + 1),
                                 known |-> s.lastLocation.key])]

\* The key the createKey call leading to s returned.
mintedKey(s) == s.minted[Len(s.minted)].key

\* serialize(): localStorage.setItem(slot, JSON.stringify(store)).
serialize(s) ==
    IF s.storageOk
    THEN [s EXCEPT !.durable = [kind |-> "record", key |-> s.store.key]]
    ELSE [s EXCEPT !.threw = TRUE]

(* ------------------------ transition manager -------------------------- *)

\* The engine's operations a listener may call from inside its callback.
RECURSIVE setState(_, _, _)
RECURSIVE replace(_, _)
RECURSIVE listen(_, _)

\* appendListener(fn): the listener joins the ordered collection.
appendListener(s, id) == [s EXCEPT !.listeners = Append(s.listeners, id)]

\* The unlisten returned by appendListener: the listener leaves the collection.
removeListener(s, id) ==
    [s EXCEPT !.listeners = SelectSeq(s.listeners, LAMBDA x : x # id)]

\* setPrompt(prompt): the guard becomes the current one.
setPrompt(s, id) == [s EXCEPT !.prompt = [kind |-> "guard", id |-> id]]

\* The unblock returned by setPrompt: clears the guard only if it is still
\* the current one.
clearPrompt(s, id) ==
    IF s.prompt = [kind |-> "guard", id |-> id]
    THEN [s EXCEPT !.prompt = None]
    ELSE s

\* One delivery of a transition t to a receiver, in state s: the arguments
\* the receiver is called with, the number of the state-set they come from,
\* and what the receiver finds if it reads the engine and the slot.
Delivery(who, t, s) ==
    [listener |-> who, from |-> t.from, to |-> t.to, action |-> t.action,
     n |-> t.n,
     seen |-> [location |-> s.history.location, action |-> s.history.action,
               known |-> s.lastLocation.key, store |-> s.store.key,
               durable |-> s.durable]]

\* The callback of listener id is called with transition t.  A passive
\* callback only receives; a redirecting one calls replace when the
\* transition arrives at RedirectFrom; an adding one registers one more
\* passive listener while the program has listeners left to register.
callListener(s, id, t) ==
    LET s1 == [s EXCEPT !.log = Append(s.log, Delivery(id, t, s))]
        kind == s.callbacks[id]
    IN  IF kind = "redirect" /\ t.to.path = RedirectFrom
        THEN replace(s1, RedirectTo)
        ELSE IF kind = "adder" /\ s.nextListener < MaxListeners
        THEN listen(s1, "passive")
        ELSE s1

\* The listeners ids are called in order, each in the state the one before
\* left.
RECURSIVE callEach(_, _, _)
callEach(s, ids, t) ==
    IF ids = <<>>
    THEN s
    ELSE callEach(callListener(s, Head(ids), t), Tail(ids), t)

\* notifyListeners(t): every listener that is live when the pass starts, in
\* registration order, synchronously.
notifyListeners(s, t) == callEach(s, s.listeners, t)

\* Taro.eventCenter.trigger('routerChange', t); receiver 0 is the event centre.
triggerRouterChange(s, t) ==
    [s EXCEPT !.log = Append(s.log, Delivery(0, t, s))]

(* ------------------------------ engine -------------------------------- *)

\* getDOMLocation without the line path = stripBasename(path, basename).
getDOMLocationKeepsBasename(s, state) ==
    createLocation(s.entries[s.cur].route, state.key)

\* getDOMLocation(historyState): the location of the native entry in view.
getDOMLocation(s, state) ==
    createLocation(stripBasename(s.entries[s.cur].route, s.props.basename),
                   state.key)

\* setState without the line stateKey = Number(nextState.location.state.key).
setStateKeepsCounter(s, action, location) ==
    LET assigned == [s EXCEPT !.history.action = action,
                              !.history.location = location,
                              !.lastLocation = location,
                              !.nTrans = s.nTrans + 1]
        saved == serialize(assigned)
        params == [from |-> s.lastLocation,
                   to |-> saved.history.location,
                   action |-> saved.history.action,
                   n |-> saved.nTrans]
    IN  IF saved.threw
        THEN saved
        ELSE notifyListeners(
                 triggerRouterChange(
                     [saved EXCEPT !.history.length = Len(saved.entries)],
                     params),
                 params)

\* setState that notifies before it assigns and saves.
setStateNotifiesFirst(s, action, location) ==
    LET params == [from |-> s.lastLocation,
                   to |-> location,
                   action |-> action,
                   n |-> s.nTrans + 1]
        notified == notifyListeners(triggerRouterChange(s, params), params)
        assigned == [notified EXCEPT !.history.action = action,
                                     !.history.location = location,
                                     !.lastLocation = location,
                                     !.stateKey = Number(location.key),
                                     !.nTrans = s.nTrans + 1]
        saved == serialize(assigned)
    IN  [saved EXCEPT !.history.length = Len(saved.entries)]

\* setState that runs the notification pass twice.
setStateNotifiesTwice(s, action, location) ==
    LET assigned == [s EXCEPT !.history.action = action,
                              !.history.location = location,
                              !.lastLocation = location,
                              !.stateKey = Number(location.key),
                              !.nTrans = s.nTrans + 1]
        saved == serialize(assigned)
        params == [from |-> s.lastLocation,
                   to |-> saved.history.location,
                   action |-> saved.history.action,
                   n |-> saved.nTrans]
    IN  IF saved.threw
        THEN saved
        ELSE notifyListeners(
                 notifyListeners(
                     triggerRouterChange(
                         [saved EXCEPT !.history.length = Len(saved.entries)],
                         params),
                     params),
                 params)

\* setState that takes fromLocation after lastLocation is overwritten.
setStateFromAfter(s, action, location) ==
    LET assigned == [s EXCEPT !.history.action = action,
                              !.history.location = location,
                              !.lastLocation = location,
                              !.stateKey = Number(location.key),
                              !.nTrans = s.nTrans + 1]
        saved == serialize(assigned)
        params == [from |-> assigned.lastLocation,
                   to |-> saved.history.location,
                   action |-> saved.history.action,
                   n |-> saved.nTrans]
    IN  IF saved.threw
        THEN saved
        ELSE notifyListeners(
                 triggerRouterChange(
                     [saved EXCEPT !.history.length = Len(saved.entries)],
                     params),
                 params)

\* setState(nextState)
setState(s, action, location) ==
    LET assigned == [s EXCEPT !.history.action = action,
                              !.history.location = location,
                              !.lastLocation = location,
                              !.stateKey = Number(location.key),
                              !.nTrans = s.nTrans + 1]
        saved == serialize(assigned)
        params == [from |-> s.lastLocation,
                   to |-> saved.history.location,
                   action |-> saved.history.action,
                   n |-> saved.nTrans]
    IN  IF saved.threw
        THEN saved
        ELSE notifyListeners(
                 triggerRouterChange(
                     [saved EXCEPT !.history.length = Len(saved.entries)],
                     params),
                 params)

\* push that takes the basename off the path it is given.
pushStripsBasename(s, path) ==
    LET s1 == createKey(s)
        key == mintedKey(s1)
        location == createLocation(stripBasename(path, s.props.basename), key)
        s2 == pushState(s1, KeyState(key), createHref(s1, location))
        s3 == [s2 EXCEPT !.store.key = key]
    IN  setState(s3, "PUSH", location)

\* push(path)
push(s, path) ==
    LET s1 == createKey(s)
        key == mintedKey(s1)
        location == createLocation(path, key)
        s2 == pushState(s1, KeyState(key), createHref(s1, location))
        s3 == [s2 EXCEPT !.store.key = key]
    IN  setState(s3, "PUSH", location)

\* replace that mints a key as push does.
replaceMintsKey(s, path) ==
    LET s1 == createKey(s)
        key == mintedKey(s1)
        location == createLocation(path, key)
        s2 == replaceState(s1, KeyState(key), createHref(s1, location))
        s3 == [s2 EXCEPT !.store.key = key]
    IN  setState(s3, "REPLACE", location)

\* replace(path)
replace(s, path) ==
    LET key == s.store.key
        location == createLocation(path, key)
        s1 == replaceState(s, KeyState(key), createHref(s, location))
    IN  setState(s1, "REPLACE", location)

\* go that also sets the state before the host has answered.
goSetsState(s, num) ==
    setState([s EXCEPT !.pending = Append(s.pending, num)],
             "POP", s.history.location)

\* go(num): globalHistory.go(num) queues the traversal and returns.
go(s, num) == [s EXCEPT !.pending = Append(s.pending, num)]

\* The comparison with its two branches exchanged.
classifySwapped(currentKey, nextKey) ==
    IF nextKey > currentKey THEN "POP"
    ELSE IF nextKey < currentKey THEN "PUSH"
    ELSE "REPLACE"

\* The action handlePopState derives from the two keys.
classify(currentKey, nextKey) ==
    IF nextKey > currentKey THEN "PUSH"
    ELSE IF nextKey < currentKey THEN "POP"
    ELSE "REPLACE"

\* handlePopState without the line store.key = String(nextKey).
handlePopStateKeepsStore(s, state) ==
    LET s1 == IF state = NoState
              THEN replaceStateKeepUrl(createKey(s),
                                       KeyState(mintedKey(createKey(s))))
              ELSE s
        st == IF state = NoState THEN KeyState(mintedKey(s1)) ELSE state
        currentKey == Number(s1.lastLocation.key)
        nextKey == Number(st.key)
        nextLocation == getDOMLocation(s1, st)
        action == classify(currentKey, nextKey)
        s2 == [s1 EXCEPT !.popInfo = [K |-> currentKey, Kp |-> nextKey,
                                      action |-> action]]
    IN  setState(s2, action, nextLocation)

\* handlePopState that mints a key for a null state but does not write it to
\* the native entry.
handlePopStateNoRepair(s, state) ==
    LET s1 == IF state = NoState THEN createKey(s) ELSE s
        st == IF state = NoState THEN KeyState(mintedKey(s1)) ELSE state
        currentKey == Number(s1.lastLocation.key)
        nextKey == Number(st.key)
        nextLocation == getDOMLocation(s1, st)
        action == classify(currentKey, nextKey)
        s2 == [s1 EXCEPT !.store.key = String(nextKey),
                         !.popInfo = [K |-> currentKey, Kp |-> nextKey,
                                      action |-> action]]
    IN  setState(s2, action, nextLocation)

\* handlePopState(e) with e.state = state
handlePopState(s, state) ==
    LET s1 == IF state = NoState
              THEN replaceStateKeepUrl(createKey(s),
                                       KeyState(mintedKey(createKey(s))))
              ELSE s
        st == IF state = NoState THEN KeyState(mintedKey(s1)) ELSE state
        currentKey == Number(s1.lastLocation.key)
        nextKey == Number(st.key)
        nextLocation == getDOMLocation(s1, st)
        action == classify(currentKey, nextKey)
        s2 == [s1 EXCEPT !.store.key = String(nextKey),
                         !.popInfo = [K |-> currentKey, Kp |-> nextKey,
                                      action |-> action]]
    IN  setState(s2, action, nextLocation)

\* checkDOMListeners(delta)
checkDOMListeners(s, delta) ==
    LET n == s.listenerCount + delta
    IN  [s EXCEPT !.listenerCount = n,
                  !.subscribed = IF n = 1 THEN TRUE
                                 ELSE IF n = 0 THEN FALSE
                                 ELSE s.subscribed]

\* listen(listener), where the listener's callback is of the given kind; the
\* new listener gets the next identity.
listen(s, kind) ==
    LET id == s.nextListener + 1
    IN  checkDOMListeners(
            [appendListener(s, id) EXCEPT !.nextListener = id,
                                          !.callbacks = Append(s.callbacks, kind)],
            1)

\* The function listen returned for listener id.
unlistenHandle(s, id) ==
    removeListener(checkDOMListeners(s, -1), id)

\* block(prompt); the new guard gets the next identity.
block(s) ==
    LET id == s.nextGuard + 1
        s1 == [setPrompt(s, id) EXCEPT !.nextGuard = id]
    IN  IF ~s1.isBlocked
        THEN [checkDOMListeners(s1, 1) EXCEPT !.isBlocked = TRUE]
        ELSE s1

\* The function block returned for guard id.
unblockHandle(s, id) ==
    LET s1 == IF s.isBlocked
              THEN checkDOMListeners([s EXCEPT !.isBlocked = FALSE], -1)
              ELSE s
    IN  clearPrompt(s1, id)

(* --------------------------- construction ----------------------------- *)

\* getHistoryState(): the state of the entry in view, given a string key.
\* counter is the module-level stateKey before the call.
getHistoryState(state, counter) ==
    IF state.kind = "key" THEN state ELSE KeyState(String(counter))

\* tryToParseStore without the reset store.key = state.key of an invalid store.
tryToParseStoreKeepsStale(state, slot, ok) ==
    IF ok /\ slot.kind = "record"
    THEN [key |-> slot.key]
    ELSE [key |-> "0"]

\* tryToParseStore(state) with the slot holding slot; ok is FALSE when
\* localStorage.getItem throws.
tryToParseStore(state, slot, ok) ==
    LET parsed == IF ok /\ slot.kind = "record"
                  THEN [key |-> slot.key]
                  ELSE [key |-> "0"]
    IN  IF parsed.key = state.key THEN parsed
        ELSE [parsed EXCEPT !.key = state.key]

\* createHistory(props) on a host whose entry in view has the given state
\* and route, with the slot holding slot.
createHistory(basename, state, route, slot, ok) ==
    LET initState == getHistoryState(state, 0)
        counter == IF state.kind = "key" THEN Number(state.key) ELSE 0
        path == stripBasename(route, basename)
        initialLocation == createLocation(path, initState.key)
        st == tryToParseStore(initState, slot, ok)
        s0 == [props |-> [basename |-> basename],
               stateKey |-> counter,
               history |-> [action |-> "POP", location |-> initialLocation,
                            length |-> 1],
               lastLocation |-> initialLocation,
               store |-> st,
               durable |-> slot,
               storageOk |-> ok,
               entries |-> <<[state |-> state, route |-> route]>>,
               cur |-> 1,
               pending |-> <<>>,
               listenerCount |-> 0,
               subscribed |-> FALSE,
               isBlocked |-> FALSE,
               listeners |-> <<>>,
               prompt |-> None,
               nextListener |-> 0,
               callbacks |-> <<>>,
               nextGuard |-> 0,
               log |-> <<>>,
               minted |-> <<>>,
               popInfo |-> None,
               nTrans |-> 0,
               nHostNav |-> 0,
               threw |-> FALSE]
        s1 == serialize(s0)
    IN  IF s1.threw
        THEN [s1 EXCEPT !.history = None]
        ELSE replaceStateKeepUrl(s1, KeyState(initialLocation.key))

\* The page before createHistory is called: the host holds one native entry
\* with the given state and route, the slot holds slot, no engine exists.
beforeCreateHistory(basename, state, route, slot) ==
    [createHistory(basename, state, route, slot, TRUE)
        EXCEPT !.history = None, !.lastLocation = None, !.store = None,
               !.stateKey = 0, !.durable = slot,
               !.entries = <<[state |-> state, route |-> route]>>]

\* What the native entry in view may carry when the engine is constructed.
InitStates == {NoState, [kind |-> "other"], KeyState("1")}

\* Routes the page may be loaded at.
InitRoutes == {<<"app">>}

\* What the slot may hold when the engine is constructed.
InitSlots == {[kind |-> "absent"], [kind |-> "garbage"], [kind |-> "nokey"],
              [kind |-> "record", key |-> "1"],
              [kind |-> "record", key |-> "2"]}

\* The state is the record r.
Is(r) ==
    /\ props = r.props
    /\ stateKey = r.stateKey
    /\ history = r.history
    /\ lastLocation = r.lastLocation
    /\ store = r.store
    /\ durable = r.durable
    /\ storageOk = r.storageOk
    /\ entries = r.entries
    /\ cur = r.cur
    /\ pending = r.pending
    /\ listenerCount = r.listenerCount
    /\ subscribed = r.subscribed
    /\ isBlocked = r.isBlocked
    /\ listeners = r.listeners
    /\ prompt = r.prompt
    /\ nextListener = r.nextListener
    /\ callbacks = r.callbacks
    /\ nextGuard = r.nextGuard
    /\ log = r.log
    /\ minted = r.minted
    /\ popInfo = r.popInfo
    /\ nTrans = r.nTrans
    /\ nHostNav = r.nHostNav
    /\ threw = r.threw

\* The engine has just been constructed, on some host.
Constructed(ok) ==
    \E b \in Basenames, st \in InitStates, r \in InitRoutes, sl \in InitSlots :
        Is(createHistory(b, st, r, sl, ok))

\* The page is loaded and createHistory has not been called yet.
InitStart ==
    \E b \in Basenames, st \in InitStates, r \in InitRoutes, sl \in InitSlots :
        Is(beforeCreateHistory(b, st, r, sl))

Init == Constructed(TRUE)

(* ------------------------------ actions ------------------------------- *)

\* createHistory returned an engine.
Alive == history # None

\* The state an operation starts from.
Begin == [S EXCEPT !.threw = FALSE]

\* createHistory(props) is called on the loaded page.
Construct ==
    /\ ~Alive /\ ~threw
    /\ Apply(createHistory(props.basename, entries[cur].state,
                           entries[cur].route, durable, storageOk))

\* The state a navigation starts from: log keeps the deliveries of the latest
\* navigation only.
Fresh == [Begin EXCEPT !.log = <<>>]

\* One more navigation fits the bound.
Budget == nTrans + nHostNav < MaxTrans

Push ==
    /\ Alive /\ Budget
    /\ \E p \in Paths : Apply(push(Fresh, p))

Replace ==
    /\ Alive /\ Budget
    /\ \E p \in ReplacePaths : Apply(replace(Fresh, p))

Go ==
    /\ Alive /\ Len(pending) < MaxPending
    /\ \E d \in Deltas : Apply(go(Begin, d))

\* The host performs the oldest issued traversal: past the ends of the stack
\* nothing happens; otherwise the entry in view changes and popstate fires.
HostTraverse ==
    /\ Alive /\ pending # <<>>
    /\ LET target == cur + Head(pending)
           s0 == [Begin EXCEPT !.pending = Tail(pending)]
       IN  IF target \notin 1..Len(entries)
           THEN Apply(s0)
           ELSE LET s1 == [s0 EXCEPT !.cur = target]
                IN  IF subscribed
                    THEN /\ Budget
                         /\ Apply(handlePopState([s1 EXCEPT !.log = <<>>],
                                                 entries[target].state))
                    ELSE Apply(s1)

\* The host navigates by itself to a new entry that carries no state (an
\* anchor, an edited hash) and popstate fires with a null state.
HostNavigate ==
    /\ Alive /\ Budget
    /\ \E p \in HostPaths :
         LET s1 == pushState(Begin, NoState, p)
         IN  IF subscribed
             THEN Apply(handlePopState([s1 EXCEPT !.log = <<>>], NoState))
             ELSE Apply([s1 EXCEPT !.nHostNav = nHostNav + 1])

Listen ==
    /\ Alive /\ nextListener < MaxListeners
    /\ Apply(listen(Begin, "passive"))

\* listen with a callback that redirects.
ListenRedirect ==
    /\ Alive /\ nextListener < MaxListeners
    /\ Apply(listen(Begin, "redirect"))

\* listen with a callback that registers a further listener.
ListenAdder ==
    /\ Alive /\ nextListener < MaxListeners
    /\ Apply(listen(Begin, "adder"))

\* The handle of a live listener is called.
Unlisten ==
    /\ Alive
    /\ \E i \in 1..Len(listeners) :
         Apply(unlistenHandle(Begin, listeners[i]))

\* The handle of a listener that is already removed is called again.
UnlistenAgain ==
    /\ Alive /\ listenerCount > -MaxDeficit
    /\ \E id \in 1..nextListener :
         /\ \A i \in 1..Len(listeners) : listeners[i] # id
         /\ Apply(unlistenHandle(Begin, id))

Block ==
    /\ Alive /\ nextGuard < MaxGuards
    /\ Apply(block(Begin))

Unblock ==
    /\ Alive
    /\ \E id \in 1..nextGuard :
         Apply(unblockHandle(Begin, id))

\* The host's storage starts to throw (quota exhausted, access restricted).
StorageFails ==
    /\ Alive /\ storageOk
    /\ Apply([S EXCEPT !.storageOk = FALSE])

\* The engine on a host that also navigates by itself.  Guards, and calls of
\* the handle of a listener already removed, are left to SpecCalls.
Next ==
    \/ Push
    \/ Replace
    \/ Go
    \/ HostTraverse
    \/ HostNavigate
    \/ Listen
    \/ Unlisten

Spec == Init /\ [][Next]_vars

\* Only push calls, with listeners coming and going.
NextPush ==
    \/ Push
    \/ Listen
    \/ Unlisten

SpecPush == Init /\ [][NextPush]_vars

\* Every call of the engine's interface, on a host that only performs the
\* traversals the engine issued.
NextCalls ==
    \/ Push
    \/ Replace
    \/ Go
    \/ HostTraverse
    \/ Listen
    \/ Unlisten
    \/ UnlistenAgain
    \/ Block
    \/ Unblock

SpecCalls == Init /\ [][NextCalls]_vars

\* Listeners and guards alone.
NextGuards ==
    \/ Listen
    \/ Unlisten
    \/ UnlistenAgain
    \/ Block
    \/ Unblock

SpecGuards == Init /\ [][NextGuards]_vars

\* The engine on a host whose storage may throw, from construction on or
\* from some later moment.
InitFaulty == Constructed(TRUE) \/ Constructed(FALSE)

NextFaulty ==
    \/ Push
    \/ Replace
    \/ Go
    \/ HostTraverse
    \/ Listen
    \/ Unlisten
    \/ StorageFails

SpecFaulty == InitFaulty /\ [][NextFaulty]_vars

\* The page from its load on: the engine is constructed, then used.
NextStart ==
    \/ Construct
    \/ Push
    \/ Replace
    \/ Listen
    \/ Unlisten

SpecStart == InitStart /\ [][NextStart]_vars

\* Listeners whose callbacks call the engine: push with listeners that
\* redirect by replace or register further listeners.
NextReentrant ==
    \/ Push
    \/ Listen
    \/ ListenRedirect
    \/ ListenAdder
    \/ Unlisten

SpecReentrant == Init /\ [][NextReentrant]_vars

(* ------------------------------ claims -------------------------------- *)

\* What the engine holds in memory and in the durable slot, with the record
\* of what listeners were told.
engineState == <<history, lastLocation, store, durable, stateKey, log, nTrans>>

\* C1. Store invariant: once the engine is constructed, and after every
\* transition (push, replace, a handled host notification), the key of the
\* record in the durable slot equals the key of history.location.
C1_StoreInvariant ==
    durable = [kind |-> "record", key |-> history.location.key]

\* A host notification has been handled as a POP after other transitions.
C1_Witness ==
    /\ nTrans >= 2
    /\ popInfo # None
    /\ history.action = "POP"
    /\ durable = [kind |-> "record", key |-> history.location.key]

\* C2. Key monotonicity: in a sequence of push calls every key minted is
\* numerically strictly greater than every key minted before it.
C2_KeyMonotonicity ==
    \A i, j \in 1..Len(minted) :
        i < j => Number(minted[i].key) < Number(minted[j].key)

\* Three pushes have minted three keys.
C2_Witness ==
    /\ Len(minted) >= 3
    /\ history.action = "PUSH"
    /\ history.location.key = minted[Len(minted)].key

\* C3 as stated. A key is never reused: over push, replace, go and handled
\* notifications every key minted is different from, and strictly greater
\* than, every key minted before it.
C3_NeverReused ==
    \A i, j \in 1..Len(minted) :
        i < j => /\ minted[i].key # minted[j].key
                 /\ Number(minted[j].key) > Number(minted[i].key)

\* C3 as amended. Every key minted is the last known key plus one, so it is
\* strictly greater than the key of the location current when it is minted;
\* it may repeat a key minted before a handled back navigation.
C3_MintedAboveKnown ==
    \A i \in 1..Len(minted) :
        Number(minted[i].key) = Number(minted[i].known) + 1

\* A key has been minted a second time, after a handled back navigation.
C3_Witness ==
    \E i, j \in 1..Len(minted) :
        /\ i < j
        /\ minted[i].key = minted[j].key
        /\ Number(minted[j].key) = Number(minted[j].known) + 1

\* C4. Replace preserves the key: a replace step leaves history.location's
\* key as it was, rewrites the native entry in view with that key and mints
\* nothing; a push step mints exactly one key, the key of the new location.
C4_ReplacePreservesKey ==
    [][/\ Replace =>
            /\ history'.location.key = history.location.key
            /\ lastLocation'.key = history.location.key
            /\ cur' = cur
            /\ Len(entries') = Len(entries)
            /\ entries'[cur].state = KeyState(history.location.key)
            /\ minted' = minted
       /\ Push =>
            /\ Len(minted') = Len(minted) + 1
            /\ history'.location.key = minted'[Len(minted')].key
            /\ history'.location.key # history.location.key]_vars

\* replace has run on a pushed entry: the action is REPLACE, no notification
\* was ever handled, and the location still carries the minted key.
C4_Witness ==
    /\ history.action = "REPLACE"
    /\ popInfo = None
    /\ minted # <<>>
    /\ history.location.key = minted[Len(minted)].key
    /\ entries[cur].state = KeyState(history.location.key)

\* C5. Action classification: a handled host notification with last known
\* key K and delivered key Kp gives the state-set PUSH iff Kp > K, POP iff
\* Kp < K and REPLACE iff Kp = K.
C5_ActionClassification ==
    popInfo # None =>
        /\ popInfo.action = "PUSH" <=> popInfo.Kp > popInfo.K
        /\ popInfo.action = "POP" <=> popInfo.Kp < popInfo.K
        /\ popInfo.action = "REPLACE" <=> popInfo.Kp = popInfo.K

\* A notification delivered the last known key itself.
C5_Witness ==
    /\ popInfo # None
    /\ popInfo.Kp = popInfo.K
    /\ popInfo.action = "REPLACE"
    /\ history.action = "REPLACE"

\* C6. Last-known-key invariant: whenever no issued native navigation is
\* waiting for the host, the key of lastLocation is the key carried by the
\* native entry in view.
C6_LastKnownKeyInvariant ==
    pending = <<>> => entries[cur].state = KeyState(lastLocation.key)

\* C7. Reference counting: the engine is subscribed to popstate if and only
\* if there is an active listener or an active guard.
C7_SubscribedIffActive ==
    subscribed <=> (Len(listeners) > 0 \/ prompt # None)

\* Calling the unblock of guard id while a newer guard is the current one.
StaleUnblock(id) ==
    /\ Alive
    /\ prompt # None
    /\ prompt.id # id
    /\ Apply(unblockHandle(Begin, id))

\* C8. A stale unblock has no effect: calling the unblock returned by an
\* earlier block after a newer block leaves the newer guard active and
\* leaves the host subscription as it was.
C8_StaleUnblockNoEffect ==
    [][\A id \in 1..nextGuard :
           StaleUnblock(id) => /\ prompt' = prompt
                               /\ subscribed' = subscribed]_vars

\* C9. go performs no state-set: a go step changes nothing of the engine's
\* action, location, length, last known key, store or durable record and
\* notifies nobody, and leaves the native stack as it was; the same holds
\* when the host performs a traversal that no notification reports.
C9_GoSetsNoState ==
    [][/\ Go => /\ UNCHANGED engineState
                /\ UNCHANGED <<entries, cur>>
                /\ Len(pending') = Len(pending) + 1
       /\ (HostTraverse /\ nTrans' = nTrans) => UNCHANGED engineState]_vars

\* go has been called after a transition and the host has not answered yet.
C9_Witness ==
    /\ pending # <<>>
    /\ nTrans > 0
    /\ history.action = "PUSH"
    /\ cur = Len(entries)

\* C10. No operation throws when the durable storage is unavailable.
C10_NeverThrows == ~threw

\* C11. Startup reconciliation: whatever the slot held before (nothing,
\* text that does not parse, a record without a string key, a record with
\* another key or with the live key), createHistory leaves in the slot a
\* record whose key is the key of the native entry in view, which is also the
\* key of the engine's location; it sets no state: nobody is notified and
\* the action is POP.
C11_StartupReconciliation ==
    [][Construct =>
          /\ Alive'
          /\ entries'[cur'].state.kind = "key"
          /\ durable' = [kind |-> "record", key |-> entries'[cur'].state.key]
          /\ history'.location.key = entries'[cur'].state.key
          /\ store'.key = entries'[cur'].state.key
          /\ history'.action = "POP"
          /\ log' = <<>>
          /\ nTrans' = 0
          /\ minted' = <<>>]_vars

\* The engine was constructed on an entry carrying key "1" and nothing has
\* happened since: the slot holds key "1".
C11_Witness ==
    /\ Alive
    /\ nTrans = 0
    /\ nextListener = 0
    /\ entries = <<[state |-> KeyState("1"), route |-> <<"app">>]>>
    /\ durable = [kind |-> "record", key |-> "1"]
    /\ history.action = "POP"

\* C12. All listeners see transitions in the same global order: if a listener
\* receives the transition of one state-set before that of another, every
\* other listener that receives both receives them in that order too, also
\* when the second was started by a listener calling replace from inside its
\* callback.
C12_SameGlobalOrder ==
    \A i, j, k, l \in 1..Len(log) :
        (/\ i < j
         /\ log[i].listener # 0
         /\ log[k].listener # 0
         /\ log[i].listener = log[j].listener
         /\ log[k].listener = log[l].listener
         /\ log[k].n = log[i].n
         /\ log[l].n = log[j].n) => k < l

\* C13. Notification ordering within a transition: when the event centre or
\* a listener is called with a transition, the durable record, the engine's
\* action and location and the last known key are already those of the
\* transition, so a receiver that reads the engine or the slot inside its
\* callback finds the new key.
C13_NotifiedAfterWrite ==
    \A i \in 1..Len(log) :
        /\ log[i].seen.location = log[i].to
        /\ log[i].seen.action = log[i].action
        /\ log[i].seen.known = log[i].to.key
        /\ log[i].seen.store = log[i].to.key
        /\ log[i].seen.durable = [kind |-> "record", key |-> log[i].to.key]

\* Two listeners have been told of a transition that changed the key.
C13_Witness ==
    /\ Len(log) = 3
    /\ log[3].listener = 2
    /\ log[3].to.key # log[3].from.key
    /\ log[3].seen.durable = [kind |-> "record", key |-> log[3].to.key]

\* C14. Scenario push-push-back: in a fresh session (initial key "0") with a
\* listener registered, after push(p1) and push(p2) have minted keys "1" and
\* "2", a handled host notification for the back navigation, delivering key
\* "1", sets action POP and location p1 with key "1", tells every receiver
\* fromLocation = the second pushed location and toLocation = the first, and
\* leaves key "1" in the durable slot.
C14_PushPushBack ==
    [][\A p1, p2 \in Paths :
          (/\ nTrans = 2 /\ nHostNav = 0
           /\ listeners # <<>>
           /\ minted = <<[key |-> "1", known |-> "0"],
                         [key |-> "2", known |-> "1"]>>
           /\ Len(entries) = 3 /\ cur = 3
           /\ entries[1].state = KeyState("0")
           /\ entries[2] = [state |-> KeyState("1"),
                            route |-> createHref(S, createLocation(p1, "1"))]
           /\ entries[3] = [state |-> KeyState("2"),
                            route |-> createHref(S, createLocation(p2, "2"))]
           /\ history.location = createLocation(p2, "2")
           /\ history.action = "PUSH"
           /\ pending = <<-1>>
           /\ HostTraverse)
          => /\ history'.action = "POP"
             /\ history'.location = createLocation(p1, "1")
             /\ durable' = [kind |-> "record", key |-> "1"]
             /\ Len(log') = 1 + Len(listeners)
             /\ \A i \in 1..Len(log') :
                    /\ log'[i].action = "POP"
                    /\ log'[i].to = createLocation(p1, "1")
                    /\ log'[i].from = createLocation(p2, "2")]_vars

\* The back navigation after two pushes has been handled with a listener
\* registered.
C14_Witness ==
    /\ nTrans = 3 /\ nHostNav = 0
    /\ listeners # <<>>
    /\ Len(minted) = 2
    /\ Len(entries) = 3 /\ cur = 2
    /\ popInfo = [K |-> 2, Kp |-> 1, action |-> "POP"]
    /\ history.location.key = "1"
    /\ Len(log) >= 2

\* push(p) is called.
PushPath(p) == Alive /\ Apply(push(Fresh, p))

\* replace(p) is called.
ReplacePath(p) == Alive /\ Apply(replace(Fresh, p))

\* C15 as stated. Basename scenario: with basename /app and a fresh session,
\* push('/app/a') leaves location.path '/a', action PUSH and key "1"; a
\* following replace('/app/b') leaves location.path '/b', key "1" and action
\* REPLACE.
C15_BasenameStripped ==
    [][/\ (/\ props.basename = <<"app">>
           /\ nTrans = 0 /\ nHostNav = 0 /\ history.location.key = "0"
           /\ PushPath(<<"app", "a">>))
          => /\ history'.location.path = <<"a">>
             /\ history'.action = "PUSH"
             /\ history'.location.key = "1"
       /\ (/\ props.basename = <<"app">>
           /\ nTrans = 1 /\ nHostNav = 0 /\ Len(minted) = 1
           /\ history.action = "PUSH" /\ history.location.key = "1"
           /\ ReplacePath(<<"app", "b">>))
          => /\ history'.location.path = <<"b">>
             /\ history'.location.key = "1"
             /\ history'.action = "REPLACE"]_vars

\* C15 as amended. With basename /app and a fresh session, push('/app/a')
\* leaves location.path '/app/a', the path as given, and writes the native
\* entry at '/app/app/a', with action PUSH and key "1"; a following
\* replace('/app/b') leaves location.path '/app/b' and rewrites the entry at
\* '/app/app/b', with key "1" and action REPLACE.
C15_BasenameKept ==
    [][/\ (/\ props.basename = <<"app">>
           /\ nTrans = 0 /\ nHostNav = 0 /\ history.location.key = "0"
           /\ PushPath(<<"app", "a">>))
          => /\ history'.location.path = <<"app", "a">>
             /\ entries'[cur'].route = <<"app", "app", "a">>
             /\ history'.action = "PUSH"
             /\ history'.location.key = "1"
       /\ (/\ props.basename = <<"app">>
           /\ nTrans = 1 /\ nHostNav = 0 /\ Len(minted) = 1
           /\ history.action = "PUSH" /\ history.location.key = "1"
           /\ ReplacePath(<<"app", "b">>))
          => /\ history'.location.path = <<"app", "b">>
             /\ entries'[cur'].route = <<"app", "app", "b">>
             /\ history'.location.key = "1"
             /\ history'.action = "REPLACE"]_vars

\* push('/app/a') then replace('/app/b') have run in a fresh session.
C15_Witness ==
    /\ props.basename = <<"app">>
    /\ nTrans = 2 /\ nHostNav = 0
    /\ minted = <<[key |-> "1", known |-> "0"]>>
    /\ history.action = "REPLACE"
    /\ history.location = createLocation(<<"app", "b">>, "1")
    /\ log[1].from.path = <<"app", "a">>
    /\ Len(entries) = 2 /\ cur = 2

\* C16. Listener ordering: a transition is delivered to the listeners that
\* are registered when it starts, in the order of their registration and
\* once each; a listener registered by a callback during the pass is not
\* among them.  The transition meant is the one the step starts itself, the
\* first of the step.
C16_ListenerOrdering ==
    [][nTrans' > nTrans =>
          LET first == SelectSeq(log', LAMBDA d : /\ d.n = nTrans + 1
                                                  /\ d.listener # 0)
          IN  /\ Len(first) = Len(listeners)
              /\ \A i \in 1..Len(listeners) :
                     first[i].listener = listeners[i]]_vars

\* The callback of the first listener has registered a second listener
\* during the pass of the first transition, which the second did not get.
C16_Witness ==
    /\ nTrans = 1
    /\ callbacks = <<"adder", "passive">>
    /\ listeners = <<1, 2>>
    /\ Len(log) = 2
    /\ log[2].listener = 1

\* C17. The reference count is never negative and is always the number of
\* active listeners plus active guards; the popstate handler is installed
\* exactly by the steps that take the count from 0 to 1 and removed exactly
\* by those that take it from 1 to 0, whatever handles are called, also a
\* handle that was called before.
C17_ReferenceCount ==
    [][/\ listenerCount' >= 0
       /\ listenerCount' = Len(listeners') + (IF prompt' # None THEN 1 ELSE 0)
       /\ (~subscribed /\ subscribed')
              <=> (listenerCount = 0 /\ listenerCount' = 1)
       /\ (subscribed /\ ~subscribed')
              <=> (listenerCount = 1 /\ listenerCount' = 0)]_vars

\* The host reports a navigation, made by itself or asked for by go, that
\* arrives at an entry without state, and the engine handles it.
KeylessNotification ==
    /\ subscribed
    /\ \/ HostNavigate
       \/ /\ HostTraverse
          /\ cur + Head(pending) \in 1..Len(entries)
          /\ entries[cur + Head(pending)].state = NoState

\* C18. Keyless notification repair: a handled notification without payload
\* mints one key, the last known key plus one, and writes it to the native
\* entry in view; after the state-set the key of that entry, of the engine's
\* location, the last known key and the durable key are all the minted key,
\* and the action is PUSH whether the host went forward or back.
C18_KeylessRepair ==
    [][KeylessNotification =>
          /\ Len(minted') = Len(minted) + 1
          /\ Number(mintedKey(S')) = Number(lastLocation.key) + 1
          /\ entries'[cur'].state = KeyState(mintedKey(S'))
          /\ history'.location.key = mintedKey(S')
          /\ lastLocation'.key = mintedKey(S')
          /\ store'.key = mintedKey(S')
          /\ durable' = [kind |-> "record", key |-> mintedKey(S')]
          /\ history'.action = "PUSH"
          /\ \A i \in 1..Len(log') : log'[i].action = "PUSH"]_vars

\* A back navigation to an entry the host had made without state has been
\* handled: the entry in view is not the top of the stack, and it carries
\* the key just minted.
C18_Witness ==
    /\ popInfo # None
    /\ popInfo.action = "PUSH"
    /\ cur < Len(entries)
    /\ minted # <<>>
    /\ entries[cur].state = KeyState(minted[Len(minted)].key)
    /\ entries[cur].route \in HostPaths
    /\ history.location.key = minted[Len(minted)].key
    /\ Number(entries[cur + 1].state.key) < Number(history.location.key)

\* C19. The keys the native entries carry are strictly increasing with the
\* position in the stack, so a handled back navigation sets POP, a handled
\* forward navigation sets PUSH and no notification sets REPLACE.  Entries
\* the host made without state carry no key and are not compared.
C19_StackKeysIncreasing ==
    [][/\ \A i, j \in 1..Len(entries') :
              (/\ i < j
               /\ entries'[i].state.kind = "key"
               /\ entries'[j].state.kind = "key")
              => Number(entries'[i].state.key) < Number(entries'[j].state.key)
       /\ (HostTraverse /\ nTrans' > nTrans /\ entries[cur'].state # NoState)
              => /\ Head(pending) < 0 => history'.action = "POP"
                 /\ Head(pending) > 0 => history'.action = "PUSH"
       /\ popInfo' # None => popInfo'.action # "REPLACE"]_vars

\* C20. Transitions form a chain: the fromLocation every receiver is given
\* is the toLocation given for the state-set before (for the first state-set,
\* the location the engine was constructed with), and toLocation and action
\* are the engine's location and action once the state-set is applied.
C20_TransitionChain ==
    [][nTrans' = nTrans + 1 =>
          /\ log' # <<>>
          /\ \A i \in 1..Len(log') :
                 /\ log'[i].from = (IF nTrans = 0
                                    THEN history.location
                                    ELSE log[Len(log)].to)
                 /\ log'[i].to = history'.location
                 /\ log'[i].action = history'.action]_vars

\* A third state-set, a handled back navigation, has been delivered to a
\* listener after two others.
C20_Witness ==
    /\ nTrans = 3
    /\ Len(log) >= 2
    /\ log[2].n = 3
    /\ log[2].action = "POP"
    /\ log[2].from # log[2].to
    /\ log[2].to = history.location

====
